---- MODULE Spec2Model ----
(***************************************************************************)
(* Model of the four-digit expression engine (src/src/solution.ts):        *)
(* Segment and its subclasses DigitSegment, Combination, Addition and      *)
(* Subtraction, and the Calculator that seeds the digits, builds the       *)
(* two- and three-digit numbers and closes the registry under + and -.     *)
(* Expression texts are strings, built exactly as the template literals    *)
(* of the source build them.                                               *)
(***************************************************************************)
EXTENDS Integers, Naturals, Sequences, FiniteSets, TLC

VARIABLES
    digits,         \* the argument of new Calculator(digits)
    pc,             \* position inside the constructor / getSolutions
    segments,       \* Calculator.segments
    solutions,      \* Calculator.solutions (Map<number, string[]>)
    newOperations,  \* the batch of the current round of generateOperations
    i,              \* the round counter of generateOperations
    result          \* the object returned by getSolutions

vars == <<digits, pc, segments, solutions, newOperations, i, result>>

\* ------------------------------------------------------------------ bounds
\* digit values of the inputs are drawn from 0..MaxDigit
MaxDigit == 1
\* argument lengths are drawn from 0..MaxLen (only length 4 is accepted)
MaxLen == 5
\* rounds of the closure loop the model follows
MaxRounds == 5
\* the inputs of pairwise distinct digits start at a digit in 0..MaxStart
MaxStart == 1

\* ------------------------------------------------------- program constants
\* usedDigits of a segment that consumed all four digit positions (0b1111)
FullMask == 15
\* number of digits the constructor accepts
DigitCount == 4
\* upper end of the solution range tested by setValue
MaxSolution == 100

\* ---------------------------------------------------------------- helpers
RECURSIVE Pow(_, _)
Pow(base, exp) == IF exp = 0 THEN 1 ELSE base * Pow(base, exp - 1)

\* a | b on non-negative integers, bit by bit
RECURSIVE BitOrBits(_, _)
BitOrBits(x, y) ==
    IF x = 0 THEN y
    ELSE IF y = 0 THEN x
    ELSE (IF x % 2 = 1 \/ y % 2 = 1 THEN 1 ELSE 0) + 2 * BitOrBits(x \div 2, y \div 2)

\* a ^ b on non-negative integers, bit by bit
RECURSIVE BitXorBits(_, _)
BitXorBits(x, y) ==
    IF x = 0 THEN y
    ELSE IF y = 0 THEN x
    ELSE (IF (x % 2) # (y % 2) THEN 1 ELSE 0) + 2 * BitXorBits(x \div 2, y \div 2)

\* the masks a sequence of at most MaxLen digits can give rise to
Masks == 0..(Pow(2, MaxLen) - 1)

\* the two operators tabulated over the masks, so that they are computed once
BitOrTable == [x \in Masks |-> [y \in Masks |-> BitOrBits(x, y)]]
BitXorTable == [x \in Masks |-> [y \in Masks |-> BitXorBits(x, y)]]

BitOr(x, y) == BitOrTable[x][y]
BitXor(x, y) == BitXorTable[x][y]

\* a & b on non-negative integers (used by the properties only)
RECURSIVE BitAnd(_, _)
BitAnd(x, y) ==
    IF x = 0 \/ y = 0 THEN 0
    ELSE (IF x % 2 = 1 /\ y % 2 = 1 THEN 1 ELSE 0) + 2 * BitAnd(x \div 2, y \div 2)

Range(s) == {s[k] : k \in DOMAIN s}

\* ---------------------------------------------------------------- Segment
\* The marker passed where the source passes no operand (undefined).
NoOperand == [present |-> FALSE, usedDigits |-> 0]

\* setUsedDigits that forgets the second operand
setUsedDigitsLeft(operandA, operandB) ==
    IF operandA.present THEN operandA.usedDigits ELSE 0

\* Segment.setUsedDigits
setUsedDigits(operandA, operandB) ==
    IF operandA.present
    THEN IF operandB.present
         THEN BitOr(operandA.usedDigits, operandB.usedDigits)
         ELSE operandA.usedDigits
    ELSE 0

\* Segment.constructor: the fields after super(operator, operandA, operandB).
\* usedA / usedB record the masks of the operands the segment was built from.
Segment(operator, operandA, operandB) ==
    LET used == setUsedDigits(operandA, operandB) IN
    [ present        |-> TRUE,
      operator       |-> operator,
      expressions    |-> <<>>,
      value          |-> 0,
      usedDigits     |-> used,
      usedA          |-> operandA.usedDigits,
      usedB          |-> operandB.usedDigits,
      isValid        |-> FALSE,
      isNumber       |-> FALSE,
      isComplete     |-> (used = FullMask),
      isSolution     |-> FALSE,
      isCommutative  |-> (operator \in {"+", "*"}),
      isDistributive |-> (operator \in {"+", "-"}) ]

\* haveRepeatingDigits that only recognises identical masks
haveRepeatingDigitsSameMask(segmentA, segmentB) ==
    segmentA.usedDigits = segmentB.usedDigits

\* haveRepeatingDigits that asks whether segmentB brings a position segmentA
\* does not have
haveRepeatingDigitsNewBit(segmentA, segmentB) ==
    BitOr(segmentA.usedDigits, segmentB.usedDigits) # segmentA.usedDigits

\* Segment.haveRepeatingDigits
haveRepeatingDigits(segmentA, segmentB) ==
    BitOr(segmentA.usedDigits, segmentB.usedDigits)
        # BitXor(segmentA.usedDigits, segmentB.usedDigits)

\* setValue with the lower end of the solution range included
setValueFromZero(seg, value) ==
    [seg EXCEPT !.value = value,
                !.isSolution = IF seg.isComplete /\ 0 <= value /\ value <= MaxSolution
                               THEN TRUE ELSE @]

\* setValue without the upper end of the solution range
setValueUnbounded(seg, value) ==
    [seg EXCEPT !.value = value,
                !.isSolution = IF seg.isComplete /\ 0 < value THEN TRUE ELSE @]

\* Segment.setValue
setValue(seg, value) ==
    [seg EXCEPT !.value = value,
                !.isSolution = IF seg.isComplete /\ 0 < value /\ value <= MaxSolution
                               THEN TRUE ELSE @]

\* Segment.addExpression: Set.add keeps the first insertion of a text
addExpression(seg, text) ==
    IF text \in Range(seg.expressions)
    THEN seg
    ELSE [seg EXCEPT !.expressions = Append(@, text)]

\* equals that asks for every text of this segment to be shared
equalsEveryText(this, segment) ==
    /\ this.value = segment.value
    /\ \A k \in DOMAIN this.expressions :
           this.expressions[k] \in Range(segment.expressions)

\* equals that compares the values only
equalsSameValue(this, segment) == this.value = segment.value

\* Segment.equals
equals(this, segment) ==
    /\ this.value = segment.value
    /\ \E k \in DOMAIN this.expressions :
           this.expressions[k] \in Range(segment.expressions)

\* Segment.toString: the first text of the set in insertion order; the
\* source yields undefined for an empty set, modelled as the empty string.
toString(seg) ==
    IF Len(seg.expressions) = 0 THEN "" ELSE seg.expressions[1]

\* ----------------------------------------------------------- DigitSegment
\* DigitSegment.setDigitIndex (the index comes from forEach over four
\* digits, so the range check never throws)
setDigitIndex(seg, index) == [seg EXCEPT !.usedDigits = Pow(2, index)]

\* DigitSegment.constructor
DigitSegment(digit, digitIndex) ==
    LET s0 == Segment("", NoOperand, NoOperand)
        s1 == addExpression(s0, ToString(digit))
        s2 == setValue(s1, digit)
        s3 == setDigitIndex(s2, digitIndex)
    IN  [s3 EXCEPT !.isValid = TRUE, !.isNumber = TRUE]

\* ------------------------------------------------------------ Combination
\* Combination.validate without the leading-zero test
CombinationValidateAnyLead(this, numberA, numberB) ==
    /\ ~haveRepeatingDigits(numberA, numberB)
    /\ numberA.isNumber
    /\ numberB.isNumber
    /\ ~this.isComplete

\* Combination.validate
CombinationValidate(this, numberA, numberB) ==
    /\ ~haveRepeatingDigits(numberA, numberB)
    /\ numberA.isNumber
    /\ numberB.isNumber
    /\ numberA.value # 0
    /\ ~this.isComplete

\* Combination.constructor
Combination(numberA, numberB) ==
    LET s0 == Segment("", numberA, numberB)
        s1 == [s0 EXCEPT !.isValid = CombinationValidate(s0, numberA, numberB)]
    IN  IF ~s1.isValid
        THEN s1
        ELSE LET multiplier == Pow(10, Len(ToString(numberB.value)))
                 value == numberA.value * multiplier + numberB.value
                 s2 == addExpression(s1, ToString(value))
                 s3 == setValue(s2, value)
             IN  [s3 EXCEPT !.isNumber = TRUE]

\* --------------------------------------------------------------- Addition
\* validate that only looks at the masks
OperationValidateMasksOnly(this, operandA, operandB) ==
    ~haveRepeatingDigits(operandA, operandB)

\* Addition.validate (Subtraction.validate has the same body)
OperationValidate(this, operandA, operandB) ==
    /\ ~haveRepeatingDigits(operandA, operandB)
    /\ ((this.isComplete /\ this.isSolution) \/ ~this.isComplete)

\* the callback adding the sum in the order of the operands only
AdditionConsumerOneOrder(seg, expressionA, expressionB) ==
    addExpression(seg, expressionA \o " + " \o expressionB)

\* the callback Addition passes to iterateExpressions
AdditionConsumer(seg, expressionA, expressionB) ==
    addExpression(addExpression(seg, expressionA \o " + " \o expressionB),
                  expressionB \o " + " \o expressionA)

\* SubtractionConsumer without the parentheses around a composite right operand
SubtractionConsumerBare(seg, operandB, expressionA, expressionB) ==
    addExpression(seg, expressionA \o " - " \o expressionB)

\* the callback Subtraction passes to iterateExpressions
SubtractionConsumer(seg, operandB, expressionA, expressionB) ==
    LET expressionB2 == IF operandB.isDistributive
                        THEN "(" \o expressionB \o ")"
                        ELSE expressionB
    IN  addExpression(seg, expressionA \o " - " \o expressionB2)

\* Segment.iterateExpressions: the consumer of the segment's class is called
\* for every pair of texts, operandA's texts in the outer loop and operandB's
\* in the inner one; n counts the calls already made.  Every caller passes
\* two operands.
RECURSIVE iterateExpressions(_, _, _, _)
iterateExpressions(seg, operandA, operandB, n) ==
    LET lenA == Len(operandA.expressions)
        lenB == Len(operandB.expressions)
    IN  IF n >= lenA * lenB
        THEN seg
        ELSE LET expressionA == operandA.expressions[(n \div lenB) + 1]
                 expressionB == operandB.expressions[(n % lenB) + 1]
                 next == IF seg.operator = "+"
                         THEN AdditionConsumer(seg, expressionA, expressionB)
                         ELSE SubtractionConsumer(seg, operandB, expressionA, expressionB)
             IN  \* the set after this call is evaluated before the next call
                 IF Len(next.expressions) >= 0
                 THEN iterateExpressions(next, operandA, operandB, n + 1)
                 ELSE next

\* Addition.constructor
Addition(operandA, operandB) ==
    LET s0 == Segment("+", operandA, operandB)
        s1 == setValue(s0, operandA.value + operandB.value)
        s2 == [s1 EXCEPT !.isValid = OperationValidate(s1, operandA, operandB)]
    IN  IF ~s2.isValid
        THEN s2
        ELSE iterateExpressions(s2, operandA, operandB, 0)

\* ------------------------------------------------------------ Subtraction
\* Subtraction.constructor
Subtraction(operandA, operandB) ==
    LET s0 == Segment("-", operandA, operandB)
        s1 == setValue(s0, operandA.value - operandB.value)
        s2 == [s1 EXCEPT !.isValid = OperationValidate(s1, operandA, operandB)]
    IN  IF ~s2.isValid
        THEN s2
        ELSE iterateExpressions(s2, operandA, operandB, 0)

\* ------------------------------------------------------------- Calculator
\* the predicate comparing the used digit positions instead of the values
SomeSameMask(list, seg) == \E k \in DOMAIN list : list[k].usedDigits = seg.usedDigits

\* the predicate of twoDigits.some / threeDigits.some in addNumberCombinations
SomeSameValue(list, seg) == \E k \in DOMAIN list : list[k].value = seg.value

\* addNumberCombinations: the innermost forEach (numberC), from index c on
RECURSIVE ThreeDigitLoop(_, _, _, _)
ThreeDigitLoop(segs, newTwoDigit, threeDigits, c) ==
    IF c > Len(segs)
    THEN threeDigits
    ELSE LET newThreeDigit == Combination(newTwoDigit, segs[c])
         IN  ThreeDigitLoop(segs, newTwoDigit,
                 IF newThreeDigit.isValid /\ ~SomeSameValue(threeDigits, newThreeDigit)
                 THEN Append(threeDigits, newThreeDigit)
                 ELSE threeDigits,
                 c + 1)

\* addNumberCombinations: the two outer forEach loops (numberA, numberB),
\* n counting the pairs already visited; acc holds twoDigits and threeDigits
RECURSIVE TwoDigitLoop(_, _, _)
TwoDigitLoop(segs, acc, n) ==
    IF n >= Len(segs) * Len(segs)
    THEN acc
    ELSE LET numberA == segs[(n \div Len(segs)) + 1]
             numberB == segs[(n % Len(segs)) + 1]
             newTwoDigit == Combination(numberA, numberB)
             two == IF newTwoDigit.isValid /\ ~SomeSameValue(acc.twoDigits, newTwoDigit)
                    THEN Append(acc.twoDigits, newTwoDigit)
                    ELSE acc.twoDigits
             three == ThreeDigitLoop(segs, newTwoDigit, acc.threeDigits, 1)
         IN  TwoDigitLoop(segs, [twoDigits |-> two, threeDigits |-> three], n + 1)

\* Calculator.addNumberCombinations: the registry after addSegments
addNumberCombinations(segs) ==
    LET acc == TwoDigitLoop(segs, [twoDigits |-> <<>>, threeDigits |-> <<>>], 0)
    IN  segs \o acc.twoDigits \o acc.threeDigits

\* addSolution that overwrites the list of a value already present
addSolutionReplace(sols, value, text) ==
    IF value \in DOMAIN sols
    THEN [sols EXCEPT ![value] = <<text>>]
    ELSE sols @@ (value :> <<text>>)

\* Calculator.addSolution
addSolution(sols, value, text) ==
    IF value \in DOMAIN sols
    THEN [sols EXCEPT ![value] = Append(@, text)]
    ELSE sols @@ (value :> <<text>>)

\* Calculator.operationExistsIn
operationExistsIn(operation, operationList) ==
    \E k \in DOMAIN operationList : equals(operationList[k], operation)

\* addOperation that checks the round's batch but not the registry
addOperationBatchOnly(operation, st, segs) ==
    IF /\ operation.isValid
       /\ ~operationExistsIn(operation, st.ops)
    THEN [ops  |-> Append(st.ops, operation),
          sols |-> IF operation.isSolution
                   THEN addSolution(st.sols, operation.value, toString(operation))
                   ELSE st.sols]
    ELSE st

\* Calculator.addOperation; st holds the round's batch and the solution map
addOperation(operation, st, segs) ==
    IF /\ operation.isValid
       /\ ~operationExistsIn(operation, st.ops)
       /\ ~operationExistsIn(operation, segs)
    THEN [ops  |-> Append(st.ops, operation),
          sols |-> IF operation.isSolution
                   THEN addSolution(st.sols, operation.value, toString(operation))
                   ELSE st.sols]
    ELSE st

\* generateOperations: the body of the inner forEach for one segmentB
InnerBody(segs, segmentA, st, b) ==
    LET segmentB == segs[b]
    IN  IF ~haveRepeatingDigits(segmentA, segmentB)
        THEN addOperation(Subtraction(segmentA, segmentB),
                 addOperation(Addition(segmentA, segmentB), st, segs), segs)
        ELSE st

\* generateOperations: the inner forEach, over the segments lo..hi in index
\* order (the range is split in halves only to keep the evaluation shallow)
RECURSIVE InnerLoop(_, _, _, _, _)
InnerLoop(segs, segmentA, st, lo, hi) ==
    IF lo > hi THEN st
    ELSE IF lo = hi THEN InnerBody(segs, segmentA, st, lo)
    ELSE LET mid == (lo + hi) \div 2
             left == InnerLoop(segs, segmentA, st, lo, mid)
         IN  \* the batch after lo..mid is evaluated before mid+1..hi is entered
             IF Len(left.ops) >= 0
             THEN InnerLoop(segs, segmentA, left, mid + 1, hi)
             ELSE left

\* generateOperations: the outer forEach, over the segments lo..hi in index
\* order, each running the whole inner forEach
RECURSIVE OuterLoop(_, _, _, _)
OuterLoop(segs, st, lo, hi) ==
    IF lo > hi THEN st
    ELSE IF lo = hi THEN InnerLoop(segs, segs[lo], st, 1, Len(segs))
    ELSE LET mid == (lo + hi) \div 2
             left == OuterLoop(segs, st, lo, mid)
         IN  IF Len(left.ops) >= 0
             THEN OuterLoop(segs, left, mid + 1, hi)
             ELSE left

\* the comparator of getSolutions: the keys in ascending order, the k-th
\* being the one with k - 1 smaller keys
SortedKeys(keys) ==
    [k \in 1..Cardinality(keys) |->
        CHOOSE v \in keys : Cardinality({u \in keys : v > u}) = k - 1]

\* Calculator.getSolutions: the entries of solutionsObj in key order
getSolutions(sols) ==
    LET keys == SortedKeys(DOMAIN sols)
    IN  [k \in DOMAIN keys |-> [value |-> keys[k], solutions |-> sols[keys[k]]]]

\* ------------------------------------------------------------------ inputs
RECURSIVE SeqsOfLen(_, _)
SeqsOfLen(S, n) ==
    IF n = 0 THEN {<<>>}
    ELSE {Append(s, x) : s \in SeqsOfLen(S, n - 1), x \in S}

\* the digit sequences handed to the constructor
Inputs == UNION {SeqsOfLen(0..MaxDigit, n) : n \in 0..MaxLen}

\* ------------------------------------------------------------ state machine
\* the two worked scenarios, digits 1 2 3 4 and 0 0 0 0, and the arguments
\* of a wrong length
ExampleInputs ==
    {<<1, 2, 3, 4>>, <<0, 0, 0, 0>>} \cup {s \in Inputs : Len(s) # DigitCount}

\* inputs of four pairwise distinct digits: the runs of four consecutive
\* digits from k on, ascending, descending and shuffled; and the arguments
\* of a wrong length
DistinctInputs ==
    UNION {{<<k, k + 1, k + 2, k + 3>>, <<k + 3, k + 2, k + 1, k>>,
            <<k + 2, k, k + 3, k + 1>>} : k \in 0..MaxStart}
    \cup {s \in Inputs : Len(s) # DigitCount}

\* the fields of a Calculator before its constructor body runs
InitFields ==
    /\ pc = "constructor"
    /\ segments = <<>>
    /\ solutions = <<>>
    /\ newOperations = <<>>
    /\ i = 0
    /\ result = <<>>

Init == digits \in Inputs /\ InitFields

InitExample == digits \in ExampleInputs /\ InitFields

InitDistinct == digits \in DistinctInputs /\ InitFields

\* Calculator.constructor: the argument check fails
InvalidDigits ==
    /\ pc = "constructor"
    /\ Len(digits) # DigitCount
    /\ pc' = "Invalid digits argument."
    /\ UNCHANGED <<digits, segments, solutions, newOperations, i, result>>

\* the argument check letting longer arrays through
ValidDigitsAtLeast ==
    /\ pc = "constructor"
    /\ Len(digits) >= DigitCount
    /\ pc' = "addDigit"
    /\ UNCHANGED <<digits, segments, solutions, newOperations, i, result>>

\* Calculator.constructor: the argument check passes
ValidDigits ==
    /\ pc = "constructor"
    /\ Len(digits) = DigitCount
    /\ pc' = "addDigit"
    /\ UNCHANGED <<digits, segments, solutions, newOperations, i, result>>

\* Calculator.addDigit, one call of digits.forEach
AddDigit ==
    /\ pc = "addDigit"
    /\ LET digitIndex == Len(segments)
       IN  segments' = Append(segments, DigitSegment(digits[digitIndex + 1], digitIndex))
    /\ pc' = IF Len(segments') = Len(digits) THEN "addNumberCombinations" ELSE "addDigit"
    /\ UNCHANGED <<digits, solutions, newOperations, i, result>>

\* Calculator.addNumberCombinations
AddNumberCombinations ==
    /\ pc = "addNumberCombinations"
    /\ segments' = addNumberCombinations(segments)
    /\ pc' = "do"
    /\ UNCHANGED <<digits, solutions, newOperations, i, result>>

\* generateOperations: the head of the do body, newOperations = []
BeginRound ==
    /\ pc = "do"
    /\ i < MaxRounds
    /\ newOperations' = <<>>
    /\ pc' = "forEach"
    /\ UNCHANGED <<digits, segments, solutions, i, result>>

\* generateOperations: the two nested forEach loops of one round
Round ==
    /\ pc = "forEach"
    /\ LET st == OuterLoop(segments, [ops |-> newOperations, sols |-> solutions],
                           1, Len(segments))
       IN  /\ newOperations' = st.ops
           /\ solutions' = st.sols
    /\ pc' = "addSegments"
    /\ UNCHANGED <<digits, segments, i, result>>

\* the end of a round that leaves the batch out of the registry
EndRoundDropBatch ==
    /\ pc = "addSegments"
    /\ segments' = segments
    /\ i' = i + 1
    /\ pc' = IF Len(newOperations) > 0 THEN "do" ELSE "constructed"
    /\ UNCHANGED <<digits, solutions, newOperations, result>>

\* the end of a round with a while test that is always true
EndRoundAlways ==
    /\ pc = "addSegments"
    /\ segments' = segments \o newOperations
    /\ i' = i + 1
    /\ pc' = "do"
    /\ UNCHANGED <<digits, solutions, newOperations, result>>

\* generateOperations: addSegments(...newOperations), ++i and the while test
EndRound ==
    /\ pc = "addSegments"
    /\ segments' = segments \o newOperations
    /\ i' = i + 1
    /\ pc' = IF Len(newOperations) > 0 THEN "do" ELSE "constructed"
    /\ UNCHANGED <<digits, solutions, newOperations, result>>

\* Calculator.getSolutions, called by calculateSolutions
GetSolutions ==
    /\ pc = "constructed"
    /\ result' = getSolutions(solutions)
    /\ pc' = "returned"
    /\ UNCHANGED <<digits, segments, solutions, newOperations, i>>

Next ==
    \/ InvalidDigits
    \/ ValidDigits
    \/ AddDigit
    \/ AddNumberCombinations
    \/ BeginRound
    \/ Round
    \/ EndRound
    \/ GetSolutions

Spec == Init /\ [][Next]_vars

\* the same machine started on the worked example
SpecExample == InitExample /\ [][Next]_vars

\* the same machine started on inputs of pairwise distinct digits
SpecDistinct == InitDistinct /\ [][Next]_vars

\* The constructor and getSolutions run to completion without suspension:
\* every step that can be taken is taken.  Weak fairness of Round and of
\* AddNumberCombinations, each enabled exactly at its own position and
\* leaving it, is stated on the position.
FairSpec ==
    /\ Spec
    /\ WF_vars(InvalidDigits \/ ValidDigits \/ AddDigit \/ BeginRound
                   \/ EndRound \/ GetSolutions)
    /\ []<>(pc # "addNumberCombinations")
    /\ []<>(pc # "forEach")

\* ---- Segment.haveRepeatingDigits on its own
\* a segment whose usedDigits is the mask m
MaskSegment(m) == [Segment("", NoOperand, NoOperand) EXCEPT !.usedDigits = m]

\* two segments with any masks of four bits, about to be compared
InitMasks ==
    /\ digits = <<>>
    /\ pc = "haveRepeatingDigits"
    /\ segments \in {<<MaskSegment(a), MaskSegment(b)>> : a \in 0..FullMask, b \in 0..FullMask}
    /\ solutions = <<>>
    /\ newOperations = <<>>
    /\ i = 0
    /\ result = <<>>

\* the call Segment.haveRepeatingDigits(segmentA, segmentB)
CallHaveRepeatingDigits ==
    /\ pc = "haveRepeatingDigits"
    /\ result' = <<haveRepeatingDigits(segments[1], segments[2])>>
    /\ pc' = "answered"
    /\ UNCHANGED <<digits, segments, solutions, newOperations, i>>

SpecMasks == InitMasks /\ [][CallHaveRepeatingDigits]_vars

TypeOK == pc \in {"constructor", "Invalid digits argument.", "addDigit",
                  "addNumberCombinations", "do", "forEach", "addSegments",
                  "constructed", "returned", "haveRepeatingDigits", "answered"}

\* ------------------------------------------------------------- properties
\* the keys of the map getSolutions returned
ResultKeys == {result[k].value : k \in DOMAIN result}

\* the segments the engine holds: the registry and, between the loops of a
\* round and addSegments, the round's batch (afterwards the batch is part
\* of the registry)
Held == IF pc = "addSegments" THEN segments \o newOperations ELSE segments

\* Values of the decimal numerals that use every position of P exactly once,
\* in any order, with a non-zero first digit.
RECURSIVE Numerals(_, _)
Numerals(d, P) ==
    IF Cardinality(P) = 1
    THEN {d[p] : p \in {q \in P : d[q] # 0}}
    ELSE UNION {{10 * x + d[p] : x \in Numerals(d, P \ {p})} : p \in P}

\* Values of the numbers over P: a single digit (0 allowed) or a numeral
\* of several digits without leading zero.
NumbersOver(d, P) ==
    IF Cardinality(P) = 1 THEN {d[p] : p \in P} ELSE Numerals(d, P)

\* Values of all expressions built from numbers, +, - and parentheses that
\* use every position of P exactly once.
RECURSIVE ExpressionValues(_, _)
ExpressionValues(d, P) ==
    NumbersOver(d, P) \cup
    UNION {UNION {{x + y, x - y} : x \in ExpressionValues(d, Q),
                                   y \in ExpressionValues(d, P \ Q)} :
           Q \in (SUBSET P) \ {{}, P}}

\* C1: when the map has been returned, every value v in 1..100 that some
\* expression over the four digit positions (concatenation without leading
\* zero, +, -, parentheses; every position used exactly once) evaluates to
\* is a key of the map, with at least one expression string.
C1_EveryReachableValueIsKey ==
    pc = "returned" =>
        \A v \in 1..MaxSolution :
            v \in ExpressionValues(digits, 1..DigitCount) =>
                \E k \in DOMAIN result :
                    result[k].value = v /\ Len(result[k].solutions) >= 1

\* ---- reading an expression text
Char(text, k) == SubSeq(text, k, k)

DigitValue ==
    [c \in {"0", "1", "2", "3", "4", "5", "6", "7", "8", "9"} |->
        CASE c = "0" -> 0 [] c = "1" -> 1 [] c = "2" -> 2 [] c = "3" -> 3
          [] c = "4" -> 4 [] c = "5" -> 5 [] c = "6" -> 6 [] c = "7" -> 7
          [] c = "8" -> 8 [] c = "9" -> 9]

RECURSIVE SkipSpaces(_, _)
SkipSpaces(text, k) ==
    IF k <= Len(text) /\ Char(text, k) = " " THEN SkipSpaces(text, k + 1) ELSE k

\* a decimal numeral starting at k; acc is the value of the digits read
RECURSIVE ParseNumber(_, _, _)
ParseNumber(text, k, acc) ==
    IF k <= Len(text) /\ Char(text, k) \in DOMAIN DigitValue
    THEN ParseNumber(text, k + 1, 10 * acc + DigitValue[Char(text, k)])
    ELSE [val |-> acc, pos |-> k]

RECURSIVE ParseTerm(_, _)
RECURSIVE ParseRest(_, _, _)

\* expr ::= term { ("+" | "-") term }, operators applied left to right
ParseExpr(text, k) ==
    LET t == ParseTerm(text, k) IN ParseRest(text, t.pos, t.val)

\* term ::= numeral | "(" expr ")"
ParseTerm(text, k) ==
    LET j == SkipSpaces(text, k)
    IN  IF j <= Len(text) /\ Char(text, j) = "("
        THEN LET e == ParseExpr(text, j + 1)
             IN  [val |-> e.val, pos |-> SkipSpaces(text, e.pos) + 1]
        ELSE ParseNumber(text, j, 0)

ParseRest(text, k, acc) ==
    LET j == SkipSpaces(text, k)
    IN  IF j > Len(text) \/ Char(text, j) \notin {"+", "-"}
        THEN [val |-> acc, pos |-> j]
        ELSE LET t == ParseTerm(text, j + 1)
             IN  ParseRest(text, t.pos,
                           IF Char(text, j) = "+" THEN acc + t.val ELSE acc - t.val)

\* the value of an expression text
Evaluate(text) == ParseExpr(text, 1).val

\* C2: every string stored under a key v of the solution map, read as an
\* arithmetic expression with left-to-right + and - and parentheses,
\* evaluates to exactly v.
C2_StringsEvaluateToKey ==
    \A v \in DOMAIN solutions :
        \A k \in DOMAIN solutions[v] : Evaluate(solutions[v][k]) = v

\* C2 witness: the map holds a string with a parenthesized right operand of
\* a subtraction.
C2_Witness ==
    \E v \in DOMAIN solutions :
        \E k \in DOMAIN solutions[v] :
            \E j \in 1..(Len(solutions[v][k]) - 2) :
                SubSeq(solutions[v][k], j, j + 2) = "- ("

\* C3: every key of the solution map lies in 1..100, and every string under
\* a key v is the primary text of a held Addition or Subtraction whose
\* used-digit mask is 0b1111 and whose value is v; so a complete operation
\* with value 0 or 101 contributes no entry.
C3_KeysInRangeFromCompleteSegments ==
    \A v \in DOMAIN solutions :
        /\ 1 <= v /\ v <= 100
        /\ \A k \in DOMAIN solutions[v] :
               \E n \in DOMAIN Held :
                   /\ Held[n].usedDigits = 15
                   /\ Held[n].value = v
                   /\ Held[n].isSolution
                   /\ Held[n].operator \in {"+", "-"}
                   /\ toString(Held[n]) = solutions[v][k]

\* C3 witness: construction has finished with a non-empty map, and the
\* rounds built a complete Addition of value 101 and a complete
\* Subtraction of value 0 from registry segments.
C3_Witness ==
    /\ pc = "constructed"
    /\ DOMAIN solutions # {}
    /\ \E x \in DOMAIN segments, y \in DOMAIN segments :
           /\ ~haveRepeatingDigits(segments[x], segments[y])
           /\ Addition(segments[x], segments[y]).isComplete
           /\ Addition(segments[x], segments[y]).value = 101
    /\ \E x \in DOMAIN segments, y \in DOMAIN segments :
           /\ ~haveRepeatingDigits(segments[x], segments[y])
           /\ Subtraction(segments[x], segments[y]).isComplete
           /\ Subtraction(segments[x], segments[y]).value = 0

\* ---- the digits an expression text uses
RECURSIVE CountChar(_, _, _)
CountChar(text, c, k) ==
    IF k > Len(text) THEN 0
    ELSE (IF Char(text, k) = c THEN 1 ELSE 0) + CountChar(text, c, k + 1)

\* the text uses every input digit exactly once: each digit character
\* occurs as often in the text as its value occurs in the input
UsesAllDigitsOnce(text, d) ==
    \A c \in DOMAIN DigitValue :
        CountChar(text, c, 1) = Cardinality({p \in DOMAIN d : d[p] = DigitValue[c]})

\* every string of the returned map uses all four digits exactly once
ResultStringsUseAllDigits ==
    \A k \in DOMAIN result :
        \A n \in DOMAIN result[k].solutions :
            UsesAllDigitsOnce(result[k].solutions[n], digits)

\* C4 as claimed: for input digits 1 2 3 4 the returned map has key 100 with
\* at least one string that uses all four digits exactly once.
C4_Key100Present ==
    (pc = "returned" /\ digits = <<1, 2, 3, 4>>) =>
        \E k \in DOMAIN result :
            /\ result[k].value = 100
            /\ \E n \in DOMAIN result[k].solutions :
                   UsesAllDigitsOnce(result[k].solutions[n], digits)

\* C4 amended: for input digits 1 2 3 4 the returned map has no key 100; its
\* keys lie in 1..100, the largest being 73, and every key has at least one
\* string, each string using all four digits exactly once.
C4_Key100Absent ==
    (pc = "returned" /\ digits = <<1, 2, 3, 4>>) =>
        /\ 100 \notin ResultKeys
        /\ 73 \in ResultKeys
        /\ \A k \in DOMAIN result :
               /\ 1 <= result[k].value /\ result[k].value <= 73
               /\ Len(result[k].solutions) >= 1
        /\ ResultStringsUseAllDigits

\* C4 witness: getSolutions has returned a non-empty map for digits 1 2 3 4.
C4_Witness ==
    /\ pc = "returned"
    /\ digits = <<1, 2, 3, 4>>
    /\ Len(result) > 0

\* ---- segments by mask
HeldWithMask(m) == {n \in DOMAIN Held : Held[n].usedDigits = m}

\* haveRepeatingDigits gives the same answer r for every pair of held
\* segments with masks m1 and m2
RepeatingIs(m1, m2, r) ==
    \A x \in HeldWithMask(m1), y \in HeldWithMask(m2) :
        haveRepeatingDigits(Held[x], Held[y]) = r

C5_AllZeroInput ==
    digits = <<0, 0, 0, 0>> =>
        /\ \A x \in DOMAIN segments, y \in DOMAIN segments, z \in DOMAIN segments :
               (segments[x].isNumber /\ segments[y].isNumber /\ segments[z].isNumber) =>
                   /\ segments[x].value = 0
                   /\ ~Combination(segments[x], segments[y]).isValid
                   /\ Combination(segments[x], segments[y]).value = 0
                   /\ ~Combination(Combination(segments[x], segments[y]), segments[z]).isValid
        /\ \A n \in DOMAIN segments :
               segments[n].isNumber =>
                   /\ n <= DigitCount
                   /\ segments[n].usedDigits = Pow(2, n - 1)
                   /\ segments[n].expressions = <<"0">>
        /\ DOMAIN solutions = {}
        /\ result = <<>>

\* C5 witness: construction has finished for input digits 0 0 0 0.
C5_Witness ==
    /\ digits = <<0, 0, 0, 0>>
    /\ pc = "constructed"
    /\ Len(segments) >= DigitCount

\* C7: a digit sequence whose length is not 4 leads only to the state
\* 'Invalid digits argument.': the argument check fails at once, no digit
\* segment is created, no round runs, and the registry, the batch and the
\* solution map stay empty.
C7_InvalidLengthRejected ==
    Len(digits) # 4 =>
        /\ pc \in {"constructor", "Invalid digits argument."}
        /\ (pc = "constructor" => (ENABLED InvalidDigits) /\ ~(ENABLED ValidDigits))
        /\ segments = <<>>
        /\ newOperations = <<>>
        /\ DOMAIN solutions = {}
        /\ i = 0
        /\ result = <<>>

\* C7 witness: the constructor threw for a sequence of five digits.
C7_Witness ==
    /\ Len(digits) = 5
    /\ pc = "Invalid digits argument."

\* C8: for every input of four digits construction eventually finishes, the
\* last round having accepted no operation.
C8_ClosureTerminates ==
    (Len(digits) = DigitCount) ~>
        (pc \in {"constructed", "returned"} /\ Len(newOperations) = 0)

\* C8 witness: construction finished after rounds that accepted operations
\* and a last round that accepted none.
C8_Witness ==
    /\ pc = "constructed"
    /\ i >= 2
    /\ Len(newOperations) = 0
    /\ Len(segments) > DigitCount

\* ---- deduplication of operations
IsOperation(seg) == seg.operator \in {"+", "-"}

\* the positions of the held Additions and Subtractions
HeldOperations == {n \in DOMAIN Held : IsOperation(Held[n])}

\* every (segment, text) pair of the held operations
HeldTexts ==
    UNION {{<<n, Held[n].expressions[k]>> : k \in DOMAIN Held[n].expressions} :
           n \in HeldOperations}

\* every (value, text) pair of the held operations
HeldValueTexts ==
    UNION {{<<Held[n].value, Held[n].expressions[k]>> : k \in DOMAIN Held[n].expressions} :
           n \in HeldOperations}

\* No two distinct held operations have the same value and a shared text:
\* (segment, text) |-> (value, text) is one-to-one.
NoSharedValueText == Cardinality(HeldTexts) = Cardinality(HeldValueTexts)

\* C10: after the loops of a round, every operation of the batch is valid
\* and equals() no other operation of the batch and no segment of the
\* registry, and every valid operation the round constructed equals() some
\* segment of the batch or of the registry (it was accepted unless an equal
\* one was there); and in every state no two distinct held Additions or
\* Subtractions have the same value and a shared text.
C10_AcceptedIffNew ==
    /\ NoSharedValueText
    /\ pc = "addSegments" =>
           /\ \A m \in DOMAIN newOperations :
                  /\ newOperations[m].isValid
                  /\ ~operationExistsIn(newOperations[m], segments)
                  /\ \A n \in DOMAIN newOperations :
                         n # m => ~equals(newOperations[n], newOperations[m])
           /\ \A x \in DOMAIN segments, y \in DOMAIN segments :
                  ~haveRepeatingDigits(segments[x], segments[y]) =>
                      /\ Addition(segments[x], segments[y]).isValid =>
                             operationExistsIn(Addition(segments[x], segments[y]), Held)
                      /\ Subtraction(segments[x], segments[y]).isValid =>
                             operationExistsIn(Subtraction(segments[x], segments[y]), Held)

\* C10 witness: a round after the first has finished its loops having
\* rejected a valid operation that equals() a registry segment, and having
\* accepted others.
C10_Witness ==
    /\ pc = "addSegments"
    /\ i >= 1
    /\ Len(newOperations) > 0
    /\ \E x \in DOMAIN segments, y \in DOMAIN segments :
           /\ ~haveRepeatingDigits(segments[x], segments[y])
           /\ Addition(segments[x], segments[y]).isValid
           /\ operationExistsIn(Addition(segments[x], segments[y]), segments)

\* C11: in every state, for every key v of the solution map, the strings
\* listed under v are pairwise distinct (inputs with repeated digit values
\* included).
C11_StringsDistinct ==
    \A v \in DOMAIN solutions :
        \A j \in DOMAIN solutions[v], k \in DOMAIN solutions[v] :
            j # k => solutions[v][j] # solutions[v][k]

\* C11 witness: construction has finished for an input with a repeated digit
\* value, a key lists several strings, and a round rejected a complete
\* operation whose primary text was already listed under its value.
C11_Witness ==
    /\ pc = "constructed"
    /\ \E p \in DOMAIN digits, q \in DOMAIN digits : p # q /\ digits[p] = digits[q]
    /\ \E v \in DOMAIN solutions : Len(solutions[v]) >= 2
    /\ \E x \in DOMAIN segments, y \in DOMAIN segments :
           /\ ~haveRepeatingDigits(segments[x], segments[y])
           /\ Addition(segments[x], segments[y]).isSolution
           /\ \E n \in DOMAIN segments :
                  /\ segments[n].isSolution
                  /\ segments[n].usedA # segments[x].usedDigits
                  /\ segments[n].usedA # segments[y].usedDigits
                  /\ toString(segments[n]) = toString(Addition(segments[x], segments[y]))

\* ---- masks and digit positions
\* the input positions (1-based) whose bit is set in mask m
MaskPositions(m) == {p \in 1..DigitCount : (m \div Pow(2, p - 1)) % 2 = 1}

\* the text holds exactly the digits of the input positions of mask m: each
\* digit character occurs as often as its value occurs at those positions
TextUsesPositions(text, m) ==
    \A c \in DOMAIN DigitValue :
        CountChar(text, c, 1)
            = Cardinality({p \in MaskPositions(m) : digits[p] = DigitValue[c]})

\* C12: in every state, the held segment for input position n has mask
\* exactly bit n; every other held segment (Combination, Addition or
\* Subtraction) was built from two operands with non-empty disjoint masks
\* and its own mask is their union; and every text of a held segment holds
\* exactly the digits of the positions in the segment's mask, each once.
C12_MasksDisjointUnion ==
    \A n \in DOMAIN Held :
        /\ n <= DigitCount =>
               /\ Held[n].usedDigits = Pow(2, n - 1)
               /\ Held[n].value = digits[n]
        /\ n > DigitCount =>
               /\ Held[n].usedA > 0
               /\ Held[n].usedB > 0
               /\ BitAnd(Held[n].usedA, Held[n].usedB) = 0
               /\ Held[n].usedDigits = Held[n].usedA + Held[n].usedB
               /\ MaskPositions(Held[n].usedDigits)
                      = MaskPositions(Held[n].usedA) \cup MaskPositions(Held[n].usedB)
        /\ Held[n].usedDigits \in 1..FullMask
        /\ \A k \in DOMAIN Held[n].expressions :
               TextUsesPositions(Held[n].expressions[k], Held[n].usedDigits)

\* C12 witness: construction has finished with a registry that holds a
\* Combination of three positions, and an Addition and a Subtraction of all
\* four positions, one of them built from two two-position operands.
C12_Witness ==
    /\ pc = "constructed"
    /\ \E n \in DOMAIN segments :
           /\ segments[n].isNumber
           /\ Cardinality(MaskPositions(segments[n].usedDigits)) = 3
    /\ \E n \in DOMAIN segments, m \in DOMAIN segments :
           /\ segments[n].operator = "+" /\ segments[n].usedDigits = FullMask
           /\ segments[m].operator = "-" /\ segments[m].usedDigits = FullMask
           /\ Cardinality(MaskPositions(segments[m].usedA)) = 2

\* C13: in every state, every held segment whose mask is 0b1111 is a valid
\* Addition or Subtraction that is a solution, with value in 1..100; no held
\* number (digit segment or Combination) is complete; and every Combination,
\* Addition or Subtraction that can be built from two registry segments and
\* is complete is invalid when it is a Combination or when its value lies
\* outside 1..100.
C13_CompleteImpliesSolution ==
    /\ \A n \in DOMAIN Held :
           /\ Held[n].usedDigits = FullMask =>
                  /\ Held[n].operator \in {"+", "-"}
                  /\ Held[n].isValid
                  /\ Held[n].isComplete
                  /\ Held[n].isSolution
                  /\ 1 <= Held[n].value /\ Held[n].value <= 100
           /\ Held[n].isComplete <=> Held[n].usedDigits = FullMask
           /\ Held[n].isSolution => Held[n].isComplete
           /\ Held[n].isNumber => ~Held[n].isComplete
    /\ pc \in {"do", "constructed"} =>
           \A x \in DOMAIN segments, y \in DOMAIN segments :
               BitOr(segments[x].usedDigits, segments[y].usedDigits) = FullMask =>
                   /\ ~Combination(segments[x], segments[y]).isValid
                   /\ Addition(segments[x], segments[y]).isValid =>
                          Addition(segments[x], segments[y]).value \in 1..100
                   /\ Subtraction(segments[x], segments[y]).isValid =>
                          Subtraction(segments[x], segments[y]).value \in 1..100

\* C13 witness: construction has finished, the registry holds a complete
\* operation, and from registry segments with disjoint masks one can build a
\* complete Addition of value above 100, a complete Subtraction of value
\* below 1, and a four-digit concatenation with a non-zero leading number.
C13_Witness ==
    /\ pc = "constructed"
    /\ \E n \in DOMAIN segments : segments[n].usedDigits = FullMask
    /\ \E x \in DOMAIN segments, y \in DOMAIN segments :
           /\ ~haveRepeatingDigits(segments[x], segments[y])
           /\ Addition(segments[x], segments[y]).isComplete
           /\ Addition(segments[x], segments[y]).value > 100
    /\ \E x \in DOMAIN segments, y \in DOMAIN segments :
           /\ ~haveRepeatingDigits(segments[x], segments[y])
           /\ Subtraction(segments[x], segments[y]).isComplete
           /\ Subtraction(segments[x], segments[y]).value < 1
    /\ \E x \in DOMAIN segments, y \in DOMAIN segments :
           /\ ~haveRepeatingDigits(segments[x], segments[y])
           /\ segments[x].isNumber /\ segments[y].isNumber
           /\ segments[x].value # 0
           /\ Combination(segments[x], segments[y]).isComplete

\* ---- the numbers built before the first round
\* the values of the numerals of two or three digits taken from distinct
\* input positions, the first digit not zero
TwoThreeDigitValues ==
    UNION {Numerals(digits, P) :
           P \in {Q \in SUBSET (1..DigitCount) : Cardinality(Q) \in {2, 3}}}

\* the Combinations the engine can build from the digit segments: of two
\* digit segments, and of such a Combination and a third digit segment
DigitCombinations ==
    {Combination(segments[a], segments[b]) : a \in 1..DigitCount, b \in 1..DigitCount}
    \cup {Combination(Combination(segments[a], segments[b]), segments[c]) :
             a \in 1..DigitCount, b \in 1..DigitCount, c \in 1..DigitCount}

\* C14: after addNumberCombinations and before the first round the registry
\* is the four digit segments followed by exactly one valid Combination for
\* each value of a two- or three-digit numeral over distinct input positions
\* with a non-zero leading digit; each is built as numberA * 10^(digit count
\* of numberB) + numberB, its only text is the decimal numeral of its value
\* with one character per used position; no two have the same value, and
\* none uses four positions.
C14_NumbersBeforeFirstRound ==
    (pc = "do" /\ i = 0) =>
        /\ Len(segments) = DigitCount + Cardinality(TwoThreeDigitValues)
        /\ \A n \in 1..DigitCount :
               /\ segments[n] = DigitSegment(digits[n], n - 1)
               /\ segments[n].expressions = <<ToString(digits[n])>>
        /\ {segments[n].value : n \in (DigitCount + 1)..Len(segments)}
               = TwoThreeDigitValues
        /\ \A n \in (DigitCount + 1)..Len(segments) :
               /\ segments[n] \in DigitCombinations
               /\ segments[n].isValid /\ segments[n].isNumber
               /\ segments[n].operator = ""
               /\ Len(segments[n].expressions) = 1
               /\ Evaluate(segments[n].expressions[1]) = segments[n].value
               /\ Len(segments[n].expressions[1])
                      = Cardinality(MaskPositions(segments[n].usedDigits))
               /\ Cardinality(MaskPositions(segments[n].usedDigits)) \in {2, 3}
               /\ segments[n].value >= 10 /\ segments[n].value <= 999
               /\ \A m \in (DigitCount + 1)..Len(segments) :
                      m # n => segments[m].value # segments[n].value

\* C14 witness: the numbers have been built for an input with a repeated
\* non-zero digit value and a zero, so that a concatenation was dropped for
\* its value and another for its leading zero.
C14_Witness ==
    /\ pc = "do" /\ i = 0
    /\ Len(segments) > DigitCount
    /\ \E p \in DOMAIN digits, q \in DOMAIN digits, r \in DOMAIN digits :
           /\ p # q /\ digits[p] = digits[q] /\ digits[p] # 0
           /\ digits[r] = 0

C16_OnlyDigitSegments ==
    (digits = <<0, 0, 0, 0>> /\ pc \in {"constructed", "returned"}) =>
        /\ Len(segments) = DigitCount
        /\ \A n \in DOMAIN segments : segments[n] = DigitSegment(0, n - 1)

\* C16 amended: for input digits 0 0 0 0, when construction has finished the
\* registry holds eleven segments: the four digit segments (value 0 each),
\* which are its only numbers, followed by seven Additions and Subtractions
\* of value 0 over two or three positions (0 + 0, 0 - 0, 0 + 0 + 0,
\* 0 - (0 + 0), 0 + 0 - 0, 0 - (0 - 0), 0 - 0 - 0); no segment is complete.
C16_DigitSegmentsAndZeroOperations ==
    (digits = <<0, 0, 0, 0>> /\ pc \in {"constructed", "returned"}) =>
        /\ Len(segments) = 11
        /\ \A n \in 1..DigitCount : segments[n] = DigitSegment(0, n - 1)
        /\ [n \in 1..7 |-> toString(segments[DigitCount + n])]
               = <<"0 + 0", "0 - 0", "0 + 0 + 0", "0 - (0 + 0)", "0 + 0 - 0",
                   "0 - (0 - 0)", "0 - 0 - 0">>
        /\ \A n \in (DigitCount + 1)..Len(segments) :
               /\ IsOperation(segments[n])
               /\ ~segments[n].isNumber
               /\ segments[n].isValid
               /\ segments[n].value = 0
               /\ Cardinality(MaskPositions(segments[n].usedDigits)) \in {2, 3}
        /\ \A n \in DOMAIN segments :
               ~segments[n].isComplete /\ ~segments[n].isSolution

\* C16 witness: construction has finished for input digits 0 0 0 0 after
\* rounds that accepted operations.
C16_Witness ==
    /\ digits = <<0, 0, 0, 0>>
    /\ pc = "constructed"
    /\ i >= 2
    /\ \E n \in DOMAIN segments : IsOperation(segments[n])

\* ---- rounds
\* the number of digit positions a segment uses
PositionCount(seg) == Cardinality(MaskPositions(seg.usedDigits))

\* C17: every operation accepted in round k (the batch held when k - 1
\* rounds have ended) uses at least k + 1 digit positions, for k = 1, 2, 3;
\* a round from the fourth on accepts nothing; and the loop never runs more
\* than 4 rounds.
C17_RoundKUsesKPlusOnePositions ==
    /\ i <= 4
    /\ pc \in {"forEach", "addSegments"} => i <= 3
    /\ pc = "addSegments" =>
           /\ \A n \in DOMAIN newOperations :
                  PositionCount(newOperations[n]) >= (i + 1) + 1
           /\ i + 1 >= 4 => Len(newOperations) = 0

\* C17 witness: the loops of a fourth round have run and accepted nothing,
\* the third round having accepted operations over all four positions.
C17_Witness ==
    /\ pc = "addSegments"
    /\ i = 3
    /\ Len(newOperations) = 0
    /\ \E n \in DOMAIN segments : segments[n].usedDigits = FullMask

\* ---- inputs of pairwise distinct digits
PairwiseDistinct(d) ==
    \A p \in DOMAIN d, q \in DOMAIN d : p # q => d[p] # d[q]

\* the mask of a set of input positions
RECURSIVE MaskOfPositions(_)
MaskOfPositions(P) ==
    IF P = {} THEN 0
    ELSE LET p == CHOOSE q \in P : TRUE
         IN  Pow(2, p - 1) + MaskOfPositions(P \ {p})

\* C18: when the four input digits are pairwise distinct, the returned map
\* has a key for every value in 1..100 of an expression over all four
\* positions (concatenation without leading zero, +, -, parentheses), and
\* the finished registry has, for every set of positions and every value
\* of an expression over exactly those positions (for all four positions:
\* every value in 1..100), a segment with that value and that mask.
C18_DistinctDigitsComplete ==
    (Len(digits) = DigitCount /\ PairwiseDistinct(digits)) =>
        /\ pc = "returned" =>
               \A v \in 1..MaxSolution :
                   v \in ExpressionValues(digits, 1..DigitCount) =>
                       \E k \in DOMAIN result :
                           result[k].value = v /\ Len(result[k].solutions) >= 1
        /\ pc = "constructed" =>
               \A P \in (SUBSET (1..DigitCount)) \ {{}} :
                   \A v \in ExpressionValues(digits, P) :
                       (P # 1..DigitCount \/ v \in 1..MaxSolution) =>
                           \E n \in DOMAIN segments :
                               /\ segments[n].value = v
                               /\ segments[n].usedDigits = MaskOfPositions(P)

\* C18 witness: the map has been returned, not empty, for four pairwise
\* distinct digits one of which is 0, and the registry holds a segment with
\* several texts (operations built from other operands were found equal to
\* it).
C18_Witness ==
    /\ pc = "returned"
    /\ Len(digits) = DigitCount
    /\ PairwiseDistinct(digits)
    /\ \E p \in DOMAIN digits : digits[p] = 0
    /\ Len(result) > 0
    /\ \E n \in DOMAIN segments : Len(segments[n].expressions) > 2

\* ---- the solution map against the solution segments
\* the held segments that are solutions, in the order they were accepted
SolutionSegments == SelectSeq(Held, LAMBDA s : s.isSolution)

\* the primary texts of the held solution segments of value v, in order
SolutionTexts(v) ==
    LET segs == SelectSeq(Held, LAMBDA s : s.isSolution /\ s.value = v)
    IN  [k \in DOMAIN segs |-> toString(segs[k])]

\* every (key, index) position of the solution map
SolutionEntries ==
    UNION {{<<v, k>> : k \in DOMAIN solutions[v]} : v \in DOMAIN solutions}

\* C19: in every state between rounds, after the loops of a round and at
\* termination, the list under each key v is exactly the sequence of the
\* primary texts of the held solution segments of value v (registry plus
\* the round's batch) in the order of their acceptance, no key has an empty
\* list, every solution segment's value is a key, and the number of strings
\* in the map equals the number of held solution segments.
C19_MapMatchesSolutionSegments ==
    /\ \A v \in DOMAIN solutions :
           /\ Len(solutions[v]) >= 1
           /\ solutions[v] = SolutionTexts(v)
    /\ \A n \in DOMAIN SolutionSegments :
           /\ SolutionSegments[n].value \in DOMAIN solutions
           /\ toString(SolutionSegments[n]) # ""
    /\ Cardinality(SolutionEntries) = Len(SolutionSegments)

\* C19 witness: the loops of the third round have run; the registry and
\* the batch both hold solution segments, one of them with several texts of
\* which only the first is in the map.
C19_Witness ==
    /\ pc = "addSegments"
    /\ i = 2
    /\ \E n \in DOMAIN segments : segments[n].isSolution
    /\ \E n \in DOMAIN newOperations :
           /\ newOperations[n].isSolution
           /\ Len(newOperations[n].expressions) >= 2
           /\ newOperations[n].expressions[2]
                  \notin Range(solutions[newOperations[n].value])

====
